---- MODULE Spec2Model ----
(***************************************************************************)
(* Analog Horror Database: the merge-and-strip synchronisation protocol of *)
(* the /api/data handlers.                                                 *)
(*                                                                         *)
(* JavaScript values are modelled as tagged records [t, v]: t is the       *)
(* value's kind (what typeof / Array.isArray / === null tell apart) and v  *)
(* its content.  Numbers carry their decimal text, so that String(id), the *)
(* key curById is indexed with, is v for numbers and strings alike.        *)
(* Objects are functions from their own keys; a key whose value is         *)
(* Undefined is present in memory and dropped by JSON.stringify.           *)
(***************************************************************************)
EXTENDS Integers, Sequences, FiniteSets, TLC

VARIABLES
    pc,         \* position of the run: which call comes next
    variant,    \* the handler whose code runs: "table", "bykey", "file",
                \* "cached" or "cleanup"
    current,    \* smartMerge: the document read from the store; cleanup:
                \* the rows dbGetAll returned
    incoming,   \* smartMerge: the document of the request body
    merged,     \* smartMerge: its result (TypeError when it throws);
                \* cleanup: the three cleaned collections
    data,       \* stripImages: the document handed to it
    stripped,   \* stripImages(data)
    restripped, \* stripImages applied to what the client received
    store,      \* the rows of the Supabase `store` table, key -> JSON value
    view,       \* the body and kind of the last 200 answer to a GET;
                \* cleanup: the rows the run started from
    fresh,      \* no row has changed since that GET was answered
    last,       \* the last request handled: method, status and, for a
                \* write, what it was and the rows before it
    file,       \* the document file of the GitHub repository: content, sha
    cache,      \* _cache, _cacheSha and _cacheTime of the handler's process
    clock,      \* Date.now()
    reqs,       \* the requests the process is handling, one per slot
    written     \* the commit of the last write this process was told
                \* succeeded (0: none)

vars == <<pc, variant, current, incoming, merged, data, stripped, restripped,
          store, view, fresh, last, file, cache, clock, reqs, written>>

\* what the runs over the table leave alone, and what the handlers over the
\* file leave alone
fileVars == <<file, cache, clock, reqs, written>>
tableVars == <<pc, current, incoming, merged, data, stripped, restripped,
               store, view, fresh, last>>

-----------------------------------------------------------------------------
(* JavaScript values *)

Undefined == [t |-> "undefined", v |-> ""]
Null      == [t |-> "null", v |-> ""]
Num(s)    == [t |-> "number", v |-> s]
Str(s)    == [t |-> "string", v |-> s]
Bool(b)   == [t |-> "boolean", v |-> b]
Arr(s)    == [t |-> "array", v |-> s]
Obj(f)    == [t |-> "object", v |-> f]
TypeError == [t |-> "throw", v |-> "TypeError"]

EmptyObj == Obj(<<>>)

\* ToBoolean: false, 0, "", null and undefined are falsy
Truthy(x) ==
    CASE x.t = "undefined" -> FALSE
      [] x.t = "null"      -> FALSE
      [] x.t = "boolean"   -> x.v
      [] x.t = "number"    -> x.v # "0"
      [] x.t = "string"    -> x.v # ""
      [] OTHER             -> TRUE

IsArray(x)  == x.t = "array"
IsObject(x) == x.t = "object"
\* typeof x === "object" is true of objects, arrays and null
TypeofObject(x) == x.t \in {"object", "array", "null"}
Nullish(x)  == x.t \in {"undefined", "null"}

\* x[k] / x.k on a value that is not null or undefined
Get(x, k) == IF IsObject(x) /\ k \in DOMAIN x.v THEN x.v[k] ELSE Undefined

\* x.length: defined for arrays; -1 stands for `undefined`, which is
\* neither === 0 nor > 0
Length(x) == IF IsArray(x) THEN Len(x.v) ELSE -1

\* {...x}: the own enumerable keys of x; a number or null spreads to nothing
Spread(x) == IF IsObject(x) THEN x.v ELSE <<>>

\* {...o, k: val}
With(o, k, val) == [j \in DOMAIN o \cup {k} |-> IF j = k THEN val ELSE o[j]]

\* String(x), the property key x is coerced to
String(x) == IF x.t \in {"number", "string"} THEN x.v ELSE x.t

\* JSON.parse(JSON.stringify(x)): object keys whose value is undefined are
\* dropped, undefined array elements become null
RECURSIVE ToJSON(_)
ToJSON(x) ==
    CASE IsObject(x) ->
           Obj([k \in {j \in DOMAIN x.v : x.v[j].t # "undefined"} |-> ToJSON(x.v[k])])
      [] IsArray(x) ->
           Arr([i \in 1..Len(x.v) |->
                  IF x.v[i].t = "undefined" THEN Null ELSE ToJSON(x.v[i])])
      [] OTHER -> x

-----------------------------------------------------------------------------
(* smartMerge *)

\* isIdArray: both values are arrays and the FIRST incoming element is a
\* truthy object with a truthy id
isIdArray(inVal, curVal) ==
    /\ IsArray(inVal)
    /\ IsArray(curVal)
    /\ Len(inVal.v) > 0
    /\ Truthy(inVal.v[1])
    /\ TypeofObject(inVal.v[1])
    /\ Truthy(Get(inVal.v[1], "id"))

\* curById[id] after `for (const item of curVal) curById[item.id] = item`:
\* the last item stored under the key String(id), undefined when there is none
curById(curVal, id) ==
    LET hits == {i \in 1..Len(curVal.v) :
                    String(Get(curVal.v[i], "id")) = String(id)}
    IN  IF hits = {} THEN Undefined
        ELSE curVal.v[CHOOSE i \in hits : \A j \in hits : j <= i]

\* restoredImages, restoring as soon as one submitted record is stripped
restoredImages_anyStripped(inItem, curItem) ==
    IF /\ \/ ~Truthy(Get(inItem, "images"))
          \/ Length(Get(inItem, "images")) = 0
          \/ \E r \in 1..Length(Get(inItem, "images")) :
                ~Truthy(Get(Get(inItem, "images").v[r], "data"))
       /\ Truthy(Get(curItem, "images"))
       /\ Length(Get(curItem, "images")) > 0
    THEN Get(curItem, "images")
    ELSE Get(inItem, "images")

restoredImages(inItem, curItem) ==
    IF /\ (~Truthy(Get(inItem, "images")) \/ Length(Get(inItem, "images")) = 0)
       /\ Truthy(Get(curItem, "images"))
       /\ Length(Get(curItem, "images")) > 0
    THEN Get(curItem, "images")
    ELSE Get(inItem, "images")

restoredImage(inItem, curItem) ==
    IF Get(inItem, "image") = Null /\ Truthy(Get(curItem, "image"))
    THEN Get(curItem, "image")
    ELSE Get(inItem, "image")

\* mergeItem without its early return for an unmatched item
mergeItem_noEarlyReturn(inItem, curVal) ==
    LET curItem == curById(curVal, Get(inItem, "id"))
    IN  Obj(With(With(Spread(inItem),
                      "images", restoredImages(inItem, curItem)),
                 "image", restoredImage(inItem, curItem)))

\* mergeItem spreading the stored entity under the submitted one
mergeItem_deepMerge(inItem, curVal) ==
    LET curItem == curById(curVal, Get(inItem, "id"))
    IN  IF ~Truthy(curItem) THEN inItem
        ELSE Obj(With(With([k \in DOMAIN Spread(curItem) \cup DOMAIN Spread(inItem) |->
                              IF k \in DOMAIN Spread(inItem)
                              THEN inItem.v[k] ELSE curItem.v[k]],
                           "images", restoredImages(inItem, curItem)),
                      "image", restoredImage(inItem, curItem)))

\* the callback of inVal.map
mergeItem(inItem, curVal) ==
    LET curItem == curById(curVal, Get(inItem, "id"))
    IN  IF ~Truthy(curItem) THEN inItem
        ELSE Obj(With(With(Spread(inItem),
                           "images", restoredImages(inItem, curItem)),
                      "image", restoredImage(inItem, curItem)))

\* mergeKey as a patch: stored entities that were not submitted are kept
mergeKey_patch(inVal, curVal) ==
    IF isIdArray(inVal, curVal)
    THEN Arr([i \in 1..Len(inVal.v) |-> mergeItem(inVal.v[i], curVal)]
             \o SelectSeq(curVal.v,
                   LAMBDA c : \A i \in 1..Len(inVal.v) :
                       String(Get(inVal.v[i], "id")) # String(Get(c, "id"))))
    ELSE inVal

\* mergeKey merging a submitted object into the stored one
mergeKey_deep(inVal, curVal) ==
    IF isIdArray(inVal, curVal)
    THEN Arr([i \in 1..Len(inVal.v) |-> mergeItem(inVal.v[i], curVal)])
    ELSE IF IsObject(inVal) /\ IsObject(curVal)
    THEN Obj([k \in DOMAIN curVal.v \cup DOMAIN inVal.v |->
                IF k \in DOMAIN inVal.v THEN inVal.v[k] ELSE curVal.v[k]])
    ELSE inVal

\* the value smartMerge stores under one key of incoming
mergeKey(inVal, curVal) ==
    IF isIdArray(inVal, curVal)
    THEN Arr([i \in 1..Len(inVal.v) |-> mergeItem(inVal.v[i], curVal)])
    ELSE inVal

\* item.id / inItem.id read from null or undefined throws a TypeError
mergeThrows(inVal, curVal) ==
    /\ isIdArray(inVal, curVal)
    /\ \/ \E i \in 1..Len(curVal.v) : Nullish(curVal.v[i])
       \/ \E i \in 1..Len(inVal.v) : Nullish(inVal.v[i])

\* smartMerge starting from {} instead of { ...current }
smartMerge_noCopy(cur, inc) ==
    IF \E key \in DOMAIN inc.v : mergeThrows(inc.v[key], Get(cur, key))
    THEN TypeError
    ELSE Obj([key \in DOMAIN inc.v |-> mergeKey(inc.v[key], Get(cur, key))])

smartMerge(cur, inc) ==
    IF \E key \in DOMAIN inc.v : mergeThrows(inc.v[key], Get(cur, key))
    THEN TypeError
    ELSE Obj([key \in DOMAIN cur.v \cup DOMAIN inc.v |->
                IF key \in DOMAIN inc.v
                THEN mergeKey(inc.v[key], Get(cur, key))
                ELSE cur.v[key]])

-----------------------------------------------------------------------------
(* stripImages *)

\* stripImg building the record anew and forgetting the spread of img
stripImg_noSpread(img) ==
    ("id" :> Get(img, "id")) @@
    ("data" :> IF Truthy(Get(img, "iscover")) THEN Get(img, "data") ELSE Undefined)

\* img => ({ ...img, data: img.iscover ? img.data : undefined })
stripImg(img) ==
    With(Spread(img), "data",
         IF Truthy(Get(img, "iscover")) THEN Get(img, "data") ELSE Undefined)

\* s => ({ ...s, images: (s.images || []).map(...) })
stripSeries(s) ==
    LET imgs == IF Truthy(Get(s, "images")) THEN Get(s, "images") ELSE Arr(<<>>)
    IN  Obj(With(Spread(s), "images",
                 Arr([i \in 1..Len(imgs.v) |-> Obj(stripImg(imgs.v[i]))])))

\* c => ({ ...c, image: null, images: [] })
stripChar(c) == Obj(With(With(Spread(c), "image", Null), "images", Arr(<<>>)))

\* e => ({ ...e, images: [] })
stripEp(e) == Obj(With(Spread(e), "images", Arr(<<>>)))

\* .map called on a truthy value that is no array, or a property read from
\* null or undefined inside the series callback, throws a TypeError
stripThrows(d) ==
    \/ \E key \in {"ahw_series", "ahw_chars", "ahw_eps"} :
          Truthy(Get(d, key)) /\ ~IsArray(Get(d, key))
    \/ /\ IsArray(Get(d, "ahw_series"))
       /\ \E i \in 1..Len(Get(d, "ahw_series").v) :
             LET s == Get(d, "ahw_series").v[i]
             IN  \/ Nullish(s)
                 \/ Truthy(Get(s, "images")) /\ ~IsArray(Get(s, "images"))
                 \/ /\ IsArray(Get(s, "images"))
                    /\ \E j \in 1..Len(Get(s, "images").v) :
                          Nullish(Get(s, "images").v[j])

\* the value stripImages puts under one key of out
stripKey(key, val) ==
    IF ~Truthy(val) THEN val
    ELSE CASE key = "ahw_series" ->
                Arr([i \in 1..Len(val.v) |-> stripSeries(val.v[i])])
           [] key = "ahw_chars" ->
                Arr([i \in 1..Len(val.v) |-> stripChar(val.v[i])])
           [] key = "ahw_eps" ->
                Arr([i \in 1..Len(val.v) |-> stripEp(val.v[i])])
           [] OTHER -> val

stripImages(d) ==
    IF ~Truthy(d) THEN d
    ELSE IF stripThrows(d) THEN TypeError
    ELSE Obj([key \in DOMAIN d.v |-> stripKey(key, d.v[key])])

\* The cached file-commit handler's stripImages differs in one callback:
\* c => ({ ...c, images: [] }) leaves a character's `image` as it is
stripKeyCached(key, val) ==
    IF key = "ahw_chars" /\ Truthy(val)
    THEN Arr([i \in 1..Len(val.v) |-> stripEp(val.v[i])])
    ELSE stripKey(key, val)

stripImagesCached(d) ==
    IF ~Truthy(d) THEN d
    ELSE IF stripThrows(d) THEN TypeError
    ELSE Obj([key \in DOMAIN d.v |-> stripKeyCached(key, d.v[key])])

-----------------------------------------------------------------------------
(* Documents the runs are started from *)

\* a key with its value, nothing when the value is left out
Fld(k, val) == IF val = Undefined THEN <<>> ELSE (k :> val)

Img(id, dat, cover) == Obj(Fld("id", id) @@ Fld("data", dat) @@ Fld("iscover", cover))

Entity(id, imgs, img) == Obj(Fld("id", id) @@ Fld("images", imgs) @@ Fld("image", img))

Doc1(k, val) == Obj(Fld(k, val))

MaxImgs == 2    \* image records per entity
MaxLen  == 2    \* elements per collection

Payload == Str("data:image/png;base64,AAAA")
Url     == Str("http://x/a.png")

\* image records in position j: with or without `data`, cover or not
ImgAt(j) ==
    {Img(Num(ToString(j)), dat, cover) :
        dat \in {Undefined, Payload}, cover \in {Undefined, Bool(TRUE)}}

\* the sequences of exactly n image records
RECURSIVE ImgSeqsOfLen(_)
ImgSeqsOfLen(n) ==
    IF n = 0 THEN {<<>>}
    ELSE {Append(s, img) : s \in ImgSeqsOfLen(n - 1), img \in ImgAt(n)}

ImageSeqs == UNION {ImgSeqsOfLen(n) : n \in 0..MaxImgs}

\* what an entity's `images` can be: absent, or a sequence of records
ImagesU == {Undefined} \cup {Arr(s) : s \in ImageSeqs}

\* what an entity's `image` can be: absent, null, a URL, an inline payload
ImageU == {Undefined, Null, Url, Payload}

\* entity ids: numbers and strings, 0 and "" among them
IdU == {Num("0"), Str(""), Num("1"), Str("s1")}

\* sequences of at most MaxLen elements of S
SeqsUpTo(S) == UNION {[1..n -> S] : n \in 0..MaxLen}

FewImages == {Undefined, Arr(<<>>), Arr(<<Img(Num("1"), Payload, Undefined)>>)}

\* stored entities carry assets, submitted ones come back from a public
\* read without them; collections also hold numbers and nulls
StoredElems ==
    {Entity(id, Arr(<<Img(Num("1"), Payload, Undefined)>>), Url) :
        id \in IdU \cup {Undefined}} \cup {Num("7"), Null}

SubmittedElems ==
    {Entity(id, Arr(<<>>), Null) : id \in IdU \cup {Undefined}}
        \cup {Num("7"), Null}

\* the kinds of value a key can hold
ValueU ==
    {Undefined, Num("5"), Str("x"), Null, Obj("theme" :> Str("dark")),
     Arr(<<>>), Arr(<<Num("7")>>), Arr(<<Entity(Num("1"), Undefined, Null)>>),
     Arr(<<Entity(Num("1"), Undefined, Url), Entity(Num("2"), Undefined, Url)>>)}

SettingsU ==
    {Undefined, Obj("theme" :> Str("dark")), Obj("lang" :> Str("en")), Arr(<<>>)}

DocsKeys ==
    {Obj(Fld("ahw_chars", a) @@ Fld("ahw_settings", b) @@ Fld("ahw_r_s101", c)) :
        a \in ValueU, b \in SettingsU, c \in {Undefined, Num("5")}}

-----------------------------------------------------------------------------
(* The store and readDb *)

CORE_KEYS == {"ahw_series", "ahw_chars", "ahw_eps", "ahw_settings"}

\* readDb: every row of the table, and the core keys defaulted when absent
readDb(rows) ==
    Obj([key \in DOMAIN rows.v \cup CORE_KEYS |->
           IF key \in DOMAIN rows.v THEN rows.v[key]
           ELSE IF key = "ahw_settings" THEN EmptyObj ELSE Arr(<<>>)])

\* The older handler of api/data.js asks for six keys, one dbGet each (null
\* when the row is absent), and defaults every falsy answer; no other row
\* is read
KEYS_READ == CORE_KEYS \cup {"ahw_ratings", "ahw_reviews"}

dbGet(rows, key) == IF key \in DOMAIN rows.v THEN rows.v[key] ELSE Null

readDbByKey(rows) ==
    Obj([key \in KEYS_READ |->
           IF Truthy(dbGet(rows, key)) THEN dbGet(rows, key)
           ELSE IF key \in {"ahw_series", "ahw_chars", "ahw_eps"}
                THEN Arr(<<>>) ELSE EmptyObj])

readDbOf(which, rows) ==
    IF which = "bykey" THEN readDbByKey(rows) ELSE readDb(rows)

\* Object.keys(incoming) with incoming[key], for an incoming that passed
\* JSON.parse: an array has its indices, a number or a boolean has no keys
OwnEntries(x) ==
    CASE IsObject(x) -> x.v
      [] IsArray(x) ->
           [k \in {ToString(i - 1) : i \in 1..Len(x.v)} |->
              x.v[CHOOSE i \in 1..Len(x.v) : ToString(i - 1) = k]]
      [] OTHER -> <<>>

\* smartMerge as the handler calls it: Object.keys(null) throws
smartMergeOf(cur, inc) ==
    IF Nullish(inc) THEN TypeError ELSE smartMerge(cur, Obj(OwnEntries(inc)))

-----------------------------------------------------------------------------
(* smartMerge and stripImages called on their own *)

Idle == Undefined

\* images vary: one stored series against one submitted series
InitImages ==
    \E x \in ImagesU, y \in ImagesU, id \in {Str("s1"), Str("s2")} :
        /\ current = readDb(Doc1("ahw_series", Arr(<<Entity(Str("s1"), x, Undefined)>>)))
        /\ incoming = Doc1("ahw_series", Arr(<<Entity(id, y, Undefined)>>))

\* image varies: one stored character against one submitted character
InitImage ==
    \E xs \in FewImages \X ImageU, ys \in FewImages \X ImageU,
       id \in {Num("1"), Num("2")} :
        /\ current = readDb(Doc1("ahw_chars", Arr(<<Entity(Num("1"), xs[1], xs[2])>>)))
        /\ incoming = Doc1("ahw_chars", Arr(<<Entity(id, ys[1], ys[2])>>))

\* ids, order and array elements vary
InitIds ==
    \E c \in SeqsUpTo(StoredElems), i \in SeqsUpTo(SubmittedElems) :
        /\ current = readDb(Doc1("ahw_eps", Arr(c)))
        /\ incoming = Doc1("ahw_eps", Arr(i))

\* the other fields vary: one stored character against one submitted one
TitleU == {Undefined, Str("old"), Str("new")}

InitFields ==
    \E ct \in TitleU, it \in TitleU, cn \in {Undefined, Str("kept")},
       iy \in {Undefined, Num("1999")}, id \in {Num("1"), Num("2")},
       imgs \in {Undefined, Arr(<<>>)} :
        /\ current = readDb(Doc1("ahw_chars", Arr(<<
                Obj(Entity(Num("1"),
                           Arr(<<Img(Num("1"), Payload, Undefined)>>), Url).v
                    @@ Fld("title", ct) @@ Fld("notes", cn))>>)))
        /\ incoming = Doc1("ahw_chars", Arr(<<
                Obj(Entity(id, imgs, Null).v
                    @@ Fld("title", it) @@ Fld("year", iy))>>))

\* keys and kinds of value vary
InitKeys ==
    \E c \in DocsKeys, i \in DocsKeys :
        current = readDb(c) /\ incoming = i

InitMerge ==
    /\ file = Idle /\ cache = Idle /\ clock = 0 /\ reqs = Idle /\ written = 0
    /\ pc = "merge"
    /\ variant = "table"
    /\ InitImages \/ InitImage \/ InitIds \/ InitFields \/ InitKeys
    /\ merged = Idle
    /\ data = Idle /\ stripped = Idle /\ restripped = Idle
    /\ store = Idle /\ view = Idle /\ fresh = FALSE /\ last = Idle

Merge ==
    /\ pc = "merge"
    /\ merged' = smartMerge(current, incoming)
    /\ pc' = "merged"
    /\ UNCHANGED <<fileVars, variant, current, incoming, data, stripped, restripped,
                   store, view, fresh, last>>

NextMerge == Merge

SpecMerge == InitMerge /\ [][NextMerge]_vars

\* collections of entities, numbers and nulls
MixedElems ==
    {Entity(Num("1"), y[1], y[2]) : y \in FewImages \X ImageU}
        \cup {Num("7"), Null}

stripImagesOf(which, d) ==
    IF which = "cached" THEN stripImagesCached(d) ELSE stripImages(d)

InitStrip ==
    /\ file = Idle /\ cache = Idle /\ clock = 0 /\ reqs = Idle /\ written = 0
    /\ pc = "strip"
    /\ variant \in {"table", "cached"}
    /\ \/ \E x \in ImagesU, im \in ImageU :
              data = Doc1("ahw_series", Arr(<<Entity(Str("s1"), x, im)>>))
       \/ \E key \in {"ahw_series", "ahw_chars", "ahw_eps"},
              c \in SeqsUpTo(MixedElems) :
              data = Obj(Fld(key, Arr(c))
                         @@ Fld("ahw_settings", Obj("theme" :> Str("dark"))))
       \/ data \in DocsKeys
       \/ \E val \in ValueU : data = Doc1("ahw_series", val)
       \/ data = Null
    /\ stripped = Idle /\ restripped = Idle
    /\ current = Idle /\ incoming = Idle /\ merged = Idle
    /\ store = Idle /\ view = Idle /\ fresh = FALSE /\ last = Idle

Strip ==
    /\ pc = "strip"
    /\ stripped' = stripImagesOf(variant, data)
    /\ pc' = "stripped"
    /\ UNCHANGED <<fileVars, variant, current, incoming, merged, data, restripped,
                   store, view, fresh, last>>

\* the second application, to the value in memory or to the JSON document
\* res.json sent
Restrip ==
    /\ pc = "stripped"
    /\ stripped # TypeError
    /\ \E arg \in {stripped, ToJSON(stripped)} :
          restripped' = stripImagesOf(variant, arg)
    /\ pc' = "restripped"
    /\ UNCHANGED <<fileVars, variant, current, incoming, merged, data, stripped,
                   store, view, fresh, last>>

NextStrip == Strip \/ Restrip

SpecStrip == InitStrip /\ [][NextStrip]_vars

-----------------------------------------------------------------------------
(* The /api/data handler over the Supabase `store` table *)

SeriesU ==
    {Undefined,
     Arr(<<Entity(Str("s1"), Arr(<<Img(Num("1"), Payload, Bool(TRUE))>>), Undefined)>>),
     Arr(<<Entity(Str("s1"),
                  Arr(<<Img(Num("1"), Payload, Bool(TRUE)),
                        Img(Num("2"), Payload, Undefined)>>), Undefined)>>)}

CharsU ==
    {Undefined,
     Arr(<<Entity(Num("1"), Undefined, Url)>>),
     Arr(<<Entity(Num("1"), Arr(<<Img(Num("1"), Payload, Undefined)>>), Payload),
           Entity(Num("2"), Undefined, Null)>>)}

EpsU ==
    {Undefined,
     Arr(<<Entity(Str("e1"), Arr(<<Img(Num("1"), Payload, Undefined)>>), Undefined)>>)}

\* the rows the table can hold when the handler starts
InitStores ==
    {Obj(Fld("ahw_series", a) @@ Fld("ahw_chars", b) @@ Fld("ahw_eps", c)
         @@ Fld("ahw_r_s101", d)) :
        a \in SeriesU, b \in CharsU, c \in EpsU, d \in {Undefined, Num("5")}}

\* request bodies an admin session submits besides the document it read
EditBodies ==
    {Doc1("ahw_settings", Obj("theme" :> Str("dark"))),
     Doc1("ahw_chars", Arr(<<>>)),
     EmptyObj}

\* the keys whose dbSet the table can refuse
FailKeys == {"ahw_series", "ahw_settings"}

\* bodies that are no JSON object
BadBodies == {Null, Num("5"), Arr(<<>>), Arr(<<Num("7")>>)}

\* what the run remembers of the last request: its method, the status it
\* was answered with, whether its body was a JSON object, and the keys whose
\* dbSet the table refused
Response(method, status) ==
    [method |-> method, status |-> status, jsonObject |-> TRUE,
     refused |-> {}, roundTrip |-> FALSE, before |-> Idle]

Init ==
    /\ file = Idle /\ cache = Idle /\ clock = 0 /\ reqs = Idle /\ written = 0
    /\ pc = "idle"
    /\ variant = "table"
    /\ store \in InitStores
    /\ view = Idle
    /\ fresh = FALSE
    /\ last = Idle
    /\ current = Idle /\ incoming = Idle /\ merged = Idle
    /\ data = Idle /\ stripped = Idle /\ restripped = Idle

\* GET answered 200: readDb, stripImages unless ?admin=1, res.json
GET(isAdmin) ==
    LET doc == readDbOf(variant, store)
        out == IF isAdmin THEN doc ELSE stripImages(doc)
    IN  /\ out # TypeError
        /\ view' = [doc |-> ToJSON(out), admin |-> isAdmin]
        /\ fresh' = TRUE
        /\ last' = Response("GET", 200)
        /\ UNCHANGED <<fileVars, pc, variant, store, current, incoming, merged,
                       data, stripped, restripped>>

\* GET answered 500: dbGetAll or stripImages threw
GETFail ==
    /\ last' = Response("GET", 500)
    /\ UNCHANGED <<fileVars, pc, variant, store, view, fresh, current, incoming, merged,
                   data, stripped, restripped>>

\* the bodies the client can POST: what it holds from its last GET, or an edit
Bodies == (IF view = Idle THEN {} ELSE {view.doc}) \cup EditBodies

\* POST answered 400: the body is no JSON object (part_002 alone tests it)
POSTInvalid ==
    /\ variant = "table"
    /\ \E body \in BadBodies :
          ~Truthy(body) \/ ~TypeofObject(body) \/ IsArray(body)
    /\ last' = [Response("POST", 400) EXCEPT !.jsonObject = FALSE]
    /\ UNCHANGED <<fileVars, pc, variant, store, view, fresh, current, incoming, merged,
                   data, stripped, restripped>>

\* the body is the document of a public read that no write has followed
IsRoundTrip(body) == view # Idle /\ body = view.doc /\ ~view.admin /\ fresh

\* writeDb undoing the accepted dbSet calls when one is refused
writeDb_allOrNothing(rows, doc, failed) ==
    IF failed # {} THEN rows
    ELSE Obj([key \in DOMAIN rows.v \cup DOMAIN doc.v |->
                IF key \in DOMAIN doc.v
                THEN ToJSON(doc.v[key]) ELSE rows.v[key]])

\* the rows after writeDb(doc) when the dbSet calls of `failed` are refused:
\* every other key of doc is upserted with its JSON value
writeDb(rows, doc, failed) ==
    Obj([key \in DOMAIN rows.v \cup (DOMAIN doc.v \ failed) |->
           IF key \in DOMAIN doc.v \ failed
           THEN ToJSON(doc.v[key]) ELSE rows.v[key]])

\* POST of a JSON object: readDb, smartMerge, writeDb.  It answers 200 when
\* every dbSet succeeded and 500 when smartMerge threw or a dbSet failed;
\* the dbSet calls that succeeded stay written
POST(body, failed) ==
    LET doc == smartMergeOf(readDbOf(variant, store), body)
    IN  /\ variant = "table" => IsObject(body)
        /\ failed # {} => doc # TypeError /\ failed \subseteq DOMAIN doc.v
        /\ store' = IF doc = TypeError THEN store ELSE writeDb(store, doc, failed)
        /\ fresh' = (fresh /\ store' = store)
        /\ last' = [method    |-> "POST",
                    status    |-> IF doc = TypeError \/ failed # {} THEN 500 ELSE 200,
                    jsonObject |-> IsObject(body),
                    refused   |-> failed,
                    roundTrip |-> IsRoundTrip(body),
                    before    |-> IF IsRoundTrip(body) THEN store ELSE Idle]
        /\ UNCHANGED <<fileVars, pc, variant, view, current, incoming, merged,
                       data, stripped, restripped>>

\* POST answered 500 before any write: dbGetAll failed
POSTReadFail ==
    /\ last' = Response("POST", 500)
    /\ UNCHANGED <<fileVars, pc, variant, store, view, fresh, current, incoming, merged,
                   data, stripped, restripped>>

Next ==
    \/ \E isAdmin \in BOOLEAN : GET(isAdmin)
    \/ GETFail
    \/ POSTInvalid
    \/ \E body \in Bodies : POST(body, {})
    \/ \E body \in Bodies, key \in FailKeys : POST(body, {key})
    \/ POSTReadFail

Spec == Init /\ [][Next]_vars

\* The older handler of api/data.js over the same table: no test of the
\* body follows JSON.parse, so every parsed body reaches readDb and smartMerge
InitByKey ==
    /\ file = Idle /\ cache = Idle /\ clock = 0 /\ reqs = Idle /\ written = 0
    /\ pc = "idle"
    /\ variant = "bykey"
    /\ \E a \in SeriesU, b \in CharsU, d \in {Undefined, Num("5")} :
          store = Obj(Fld("ahw_series", a) @@ Fld("ahw_chars", b)
                      @@ Fld("ahw_r_s101", d))
    /\ view = Idle
    /\ fresh = FALSE
    /\ last = Idle
    /\ current = Idle /\ incoming = Idle /\ merged = Idle
    /\ data = Idle /\ stripped = Idle /\ restripped = Idle

NextByKey ==
    \/ \E isAdmin \in BOOLEAN : GET(isAdmin)
    \/ GETFail
    \/ \E body \in Bodies \cup BadBodies : POST(body, {})
    \/ \E body \in Bodies \cup BadBodies, key \in FailKeys : POST(body, {key})
    \/ POSTReadFail

SpecByKey == InitByKey /\ [][NextByKey]_vars

-----------------------------------------------------------------------------
(* The handlers that keep the document in one file of a GitHub repository:
   part_003 ("file") and the first handler of api/data.js ("cached") *)

MaxSha == 3          \* commits the file receives in a run
MaxTicks == 2        \* times the clock advances by CACHE_TTL
CACHE_TTL == 10000

\* the requests the process handles at once, one per caller: caller 1 is
\* the admin panel, caller 2 a visitor's browser
Slots == {1, 2}

\* whether the caller knows the admin password (no field of a request to
\* these handlers carries it)
privileged(r) == r = 1

\* sha 0 stands for null: no file, no token
NoFile == [content |-> Idle, sha |-> 0]

\* let _cache = null, _cacheSha = null, _cacheTime = 0; ver is the commit the
\* cached document is the content of
NoCache == [data |-> Null, sha |-> 0, time |-> 0, ver |-> 0]

\* the file when it exists before the run
FileDoc0 ==
    Doc1("ahw_chars",
         Arr(<<Entity(Num("1"), Arr(<<Img(Num("1"), Payload, Undefined)>>), Url)>>))

\* the parsed body of the caller's POST requests
FileBody(r) ==
    IF r = 1 THEN Doc1("ahw_settings", Obj("theme" :> Str("dark")))
    ELSE Doc1("ahw_chars", Arr(<<>>))

\* { ...current, ...incoming }
spreadMerge(cur, inc) ==
    Obj([k \in DOMAIN cur.v \cup DOMAIN inc.v |->
           IF k \in DOMAIN inc.v THEN inc.v[k] ELSE cur.v[k]])

\* a slot no request has used.  since, ver, readFailed, putFailure, cached,
\* age and retried record what happened to the request
NoReq ==
    [pc |-> "idle", method |-> "", body |-> Idle,
     now |-> 0, reply |-> Idle, sha |-> 0, merged |-> Idle,
     since |-> 0, ver |-> 0, readFailed |-> FALSE, putFailure |-> "",
     cached |-> FALSE, age |-> 0, retried |-> FALSE,
     status |-> 0, error |-> "", sent |-> Idle]

\* the handler returns its response
Answer(q, status, error, sent) ==
    [q EXCEPT !.pc = "done", !.status = status, !.error = error,
              !.sent = sent, !.now = 0, !.reply = Idle, !.sha = 0,
              !.merged = Idle]

Max(a, b) == IF a > b THEN a ELSE b

InitFile ==
    /\ variant \in {"file", "cached"}
    /\ file \in {NoFile, [content |-> FileDoc0, sha |-> 1]}
    /\ cache = NoCache
    /\ clock = 0
    /\ reqs = [r \in Slots |-> NoReq]
    /\ written = 0
    /\ pc = "idle"
    /\ store = Idle /\ view = Idle /\ fresh = FALSE /\ last = Idle
    /\ current = Idle /\ incoming = Idle /\ merged = Idle
    /\ data = Idle /\ stripped = Idle /\ restripped = Idle

\* the cache test without the freshness window
cacheHit_noExpiry == variant = "cached" /\ Truthy(cache.data)

\* readFile answers from the cache: _cache && (now - _cacheTime) < CACHE_TTL
cacheHit ==
    variant = "cached" /\ Truthy(cache.data) /\ clock - cache.time < CACHE_TTL

\* readFile returns _cache to a GET: the request keeps how long ago
\* _cacheTime is
fromCache(q) ==
    IF q.method = "GET" /\ Truthy(cache.data)
    THEN [q EXCEPT !.cached = TRUE, !.age = clock - cache.time,
                   !.ver = cache.ver]
    ELSE [q EXCEPT !.ver = cache.ver]

\* the handler once readFile has returned { data: d, sha }: a GET answers 200
\* with the document (stripped by the cached handler), a POST merges and
\* sends the PUT
afterRead(q, d, sha) ==
    IF q.method = "GET"
    THEN Answer(q, 200, "",
                ToJSON(IF variant = "cached" THEN stripImagesCached(d) ELSE d))
    ELSE [q EXCEPT !.pc = "putSent", !.merged = spreadMerge(d, q.body),
                   !.sha = sha, !.reply = Idle]

\* a request arrives and the handler runs up to its first fetch
Start(r, q) ==
    /\ reqs[r].pc \in {"idle", "done"}
    /\ reqs' = [reqs EXCEPT ![r] =
                  IF cacheHit
                  THEN afterRead(fromCache(q), cache.data, cache.sha)
                  ELSE [q EXCEPT !.pc = "getSent", !.now = clock]]
    /\ UNCHANGED <<tableVars, variant, file, cache, clock, written>>

StartGET(r) == Start(r, [NoReq EXCEPT !.method = "GET", !.since = written])

StartPOST(r, body) ==
    Start(r, [NoReq EXCEPT !.method = "POST", !.body = body])

\* POST whose body JSON.parse rejects: 400
InvalidJSON(r) ==
    /\ reqs[r].pc \in {"idle", "done"}
    /\ reqs' = [reqs EXCEPT ![r] =
                  Answer([NoReq EXCEPT !.method = "POST"], 400,
                         "Invalid JSON", Idle)]
    /\ UNCHANGED <<tableVars, variant, file, cache, clock, written>>

\* GitHub answers the GET of the file: 404 when there is none, its content
\* and sha when there is, a non-ok status when it is down or refuses
GitHubGet(r, up) ==
    /\ reqs[r].pc = "getSent"
    /\ reqs' = [reqs EXCEPT ![r].pc = "getReplied",
                            ![r].reply =
                               IF ~up THEN [status |-> 500, content |-> Idle, sha |-> 0]
                               ELSE IF file.sha = 0
                               THEN [status |-> 404, content |-> Idle, sha |-> 0]
                               ELSE [status |-> 200, content |-> file.content,
                                     sha |-> file.sha]]
    /\ UNCHANGED <<tableVars, variant, file, cache, clock, written>>

\* readFile resumes with GitHub's answer and the handler goes on
readFileReturn(r) ==
    LET q   == reqs[r]
        rep == q.reply
    IN  /\ q.pc = "getReplied"
        /\ cache' = IF variant = "cached" /\ rep.status = 200
                    THEN [data |-> rep.content, sha |-> rep.sha,
                          time |-> q.now, ver |-> rep.sha]
                    ELSE cache
        /\ reqs' = [reqs EXCEPT ![r] =
              CASE rep.status = 200 ->
                     afterRead([q EXCEPT !.ver = rep.sha], rep.content, rep.sha)
                [] rep.status = 404 ->
                     afterRead(q, EmptyObj, 0)
                [] OTHER ->
                     IF variant = "cached"
                     THEN afterRead([fromCache(q) EXCEPT !.readFailed = TRUE],
                                    IF Truthy(cache.data) THEN cache.data
                                    ELSE EmptyObj,
                                    cache.sha)
                     ELSE afterRead([q EXCEPT !.readFailed = TRUE],
                                    EmptyObj, 0)]
        /\ UNCHANGED <<tableVars, variant, file, clock, written>>

\* GitHub answers the PUT: it commits the content when the sha sent is the
\* file's (none for a file that does not exist), answers 409 to another sha
\* and 422 to none, and a non-ok status when it is down or refuses
GitHubPut(r, up) ==
    LET q        == reqs[r]
        accepted == up /\ q.sha = file.sha
        refusal  == IF ~up THEN [status |-> 500, why |-> "unavailable"]
                    ELSE IF q.sha = 0 THEN [status |-> 422, why |-> "nosha"]
                    ELSE [status |-> 409, why |-> "stale"]
    IN  /\ q.pc = "putSent"
        /\ accepted => file.sha < MaxSha
        /\ file' = IF accepted
                   THEN [content |-> ToJSON(q.merged), sha |-> file.sha + 1]
                   ELSE file
        /\ reqs' = [reqs EXCEPT ![r].pc = "putReplied",
                                ![r].putFailure =
                                   IF accepted THEN "" ELSE refusal.why,
                                ![r].reply =
                                   [status  |-> IF accepted THEN 200
                                                ELSE refusal.status,
                                    content |-> Idle,
                                    sha     |-> IF accepted THEN file.sha + 1 ELSE 0]]
        /\ UNCHANGED <<tableVars, variant, cache, clock, written>>

\* writeFile resumes with GitHub's answer.  On a refusal the handler answers
\* 500; on a commit part_003 answers 200, and the cached handler sets _cache
\* and _cacheTime and awaits res.json()
writeFileReturn(r) ==
    LET q   == reqs[r]
        rep == q.reply
        ok  == rep.status = 200
    IN  /\ q.pc = "putReplied"
        /\ cache' = IF ok /\ variant = "cached"
                    THEN [cache EXCEPT !.data = q.merged, !.time = clock,
                                       !.ver = rep.sha]
                    ELSE cache
        /\ written' = IF ok /\ variant # "cached"
                      THEN Max(written, rep.sha) ELSE written
        /\ reqs' = [reqs EXCEPT ![r] =
                      IF ~ok
                      THEN Answer(q, 500, "Failed to write to GitHub", Idle)
                      ELSE IF variant = "cached"
                      THEN [q EXCEPT !.pc = "jsonAwaited"]
                      ELSE Answer(q, 200, "", Idle)]
        /\ UNCHANGED <<tableVars, variant, file, clock>>

\* res.json() resolves: the cached handler sets _cacheSha to the sha of the
\* commit and answers 200
resJsonReturn(r) ==
    LET q == reqs[r]
    IN  /\ q.pc = "jsonAwaited"
        /\ cache' = [cache EXCEPT !.sha = q.reply.sha]
        /\ written' = Max(written, q.reply.sha)
        /\ reqs' = [reqs EXCEPT ![r] = Answer(q, 200, "", Idle)]
        /\ UNCHANGED <<tableVars, variant, file, clock>>

\* time passes
Tick ==
    /\ variant = "cached"
    /\ clock < MaxTicks * CACHE_TTL
    /\ clock' = clock + CACHE_TTL
    /\ UNCHANGED <<tableVars, variant, file, cache, reqs, written>>

NextFile ==
    \/ \E r \in Slots : StartGET(r)
    \/ \E r \in Slots : StartPOST(r, FileBody(r))
    \/ \E r \in Slots : InvalidJSON(r)
    \/ \E r \in Slots, up \in BOOLEAN : GitHubGet(r, up)
    \/ \E r \in Slots : readFileReturn(r)
    \/ \E r \in Slots, up \in BOOLEAN : GitHubPut(r, up)
    \/ \E r \in Slots : writeFileReturn(r)
    \/ \E r \in Slots : resJsonReturn(r)
    \/ Tick

SpecFile == InitFile /\ [][NextFile]_vars

\* The cached handler with a caller that retries: caller 1 posts again
\* whenever its POST was answered with an error, until one is answered 200;
\* caller 2 posts once and reads as often as it likes.  Time does not end:
\* once the clock has reached its bound the times kept are moved back instead
InitRetry == InitFile /\ variant = "cached"

FirstPOST(r) == reqs[r].pc = "idle" /\ StartPOST(r, FileBody(r))

RetryPOST(r) ==
    /\ reqs[r].pc = "done" /\ reqs[r].method = "POST" /\ reqs[r].status # 200
    /\ Start(r, [NoReq EXCEPT !.method = "POST", !.body = FileBody(r),
                              !.retried = (reqs[r].retried
                                           \/ reqs[r].putFailure = "stale")])

Elapse ==
    IF clock < MaxTicks * CACHE_TTL THEN Tick
    ELSE /\ cache' = [cache EXCEPT !.time = Max(cache.time - CACHE_TTL, 0)]
         /\ reqs' = [r \in Slots |->
                       [reqs[r] EXCEPT !.now = Max(reqs[r].now - CACHE_TTL, 0)]]
         /\ UNCHANGED <<tableVars, variant, file, clock, written>>

NextRetry ==
    \/ \E r \in Slots : FirstPOST(r)
    \/ RetryPOST(1)
    \/ StartGET(2)
    \/ \E r \in Slots, up \in BOOLEAN : GitHubGet(r, up)
    \/ \E r \in Slots : readFileReturn(r)
    \/ \E r \in Slots, up \in BOOLEAN : GitHubPut(r, up)
    \/ \E r \in Slots : writeFileReturn(r)
    \/ \E r \in Slots : resJsonReturn(r)
    \/ Elapse

\* the retrying caller posts again, its requests are carried through, GitHub
\* answers its fetches and PUTs again and again when it is up, time passes
RetryFairness ==
    /\ WF_vars(RetryPOST(1))
    /\ WF_vars(readFileReturn(1))
    /\ WF_vars(writeFileReturn(1))
    /\ WF_vars(resJsonReturn(1))
    /\ SF_vars(GitHubGet(1, TRUE))
    /\ SF_vars(GitHubPut(1, TRUE))
    /\ WF_vars(Elapse)

SpecRetry == InitRetry /\ [][NextRetry]_vars /\ RetryFairness

-----------------------------------------------------------------------------
(* The /api/data handler of part_002 with two POST requests in flight: each
   await of the handler is a step of its own *)

\* the parsed bodies of the callers' POST requests: caller 1 uploads an
\* image to character 1 or saves the settings, caller 2 saves character 1 as
\* a public read showed it
UploadBody ==
    Doc1("ahw_chars",
         Arr(<<Entity(Num("1"), Arr(<<Img(Num("1"), Payload, Undefined)>>),
                      Undefined)>>))

SettingsBody == Doc1("ahw_settings", Obj("theme" :> Str("dark")))

EditBody == Doc1("ahw_chars", Arr(<<Entity(Num("1"), Arr(<<>>), Null)>>))

TableBodies(r) == IF r = 1 THEN {UploadBody, SettingsBody} ELSE {EditBody}

\* a slot no request has used.  pending holds the keys whose dbSet has not
\* been answered, failed whether one was refused
NoTableReq ==
    [pc |-> "idle", body |-> Idle, current |-> Idle, merged |-> Idle,
     pending |-> {}, failed |-> FALSE, status |-> 0]

\* the table with Prefer: resolution=ignore-duplicates: an existing row stays
upsert_ignoreDuplicates(rows, key, val) ==
    IF key \in DOMAIN rows.v THEN rows ELSE Obj(With(rows.v, key, ToJSON(val)))

\* the table's answer to dbSet's POST with Prefer: resolution=merge-duplicates:
\* the row of the key is inserted or replaced, whatever it held
upsert(rows, key, val) == Obj(With(rows.v, key, ToJSON(val)))

InitConcurrent ==
    /\ file = Idle /\ cache = Idle /\ clock = 0 /\ written = 0
    /\ pc = "idle"
    /\ variant = "concurrent"
    /\ reqs = [r \in Slots |-> NoTableReq]
    /\ \E b \in {Undefined, Arr(<<Entity(Num("1"), Undefined, Undefined)>>),
                 Arr(<<Entity(Num("1"), Undefined, Url)>>)},
          d \in {Undefined, Num("5")} :
          store = Obj(Fld("ahw_chars", b) @@ Fld("ahw_r_s101", d))
    /\ view = Idle
    /\ fresh = FALSE
    /\ last = Idle
    /\ current = Idle /\ incoming = Idle /\ merged = Idle
    /\ data = Idle /\ stripped = Idle /\ restripped = Idle

\* the caller's POST with a JSON object arrives (one per caller in a run):
\* the handler runs up to `await readDb()`
POSTArrives(r, body) ==
    /\ reqs[r].pc = "idle"
    /\ IsObject(body)
    /\ reqs' = [reqs EXCEPT ![r] = [NoTableReq EXCEPT !.pc = "reading",
                                                      !.body = body]]
    /\ UNCHANGED <<tableVars, variant, file, cache, clock, written>>

\* dbGetAll is answered: the handler merges and writeDb sends one dbSet per
\* key of merged, or the read failed and the handler answers 500
readDbReturn(r, ok) ==
    LET q   == reqs[r]
        cur == readDb(store)
        doc == smartMerge(cur, q.body)
    IN  /\ q.pc = "reading"
        /\ reqs' = [reqs EXCEPT ![r] =
                      IF ok
                      THEN [q EXCEPT !.pc = "writing", !.current = cur,
                                     !.merged = doc, !.pending = DOMAIN doc.v]
                      ELSE [q EXCEPT !.pc = "done", !.status = 500]]
        /\ UNCHANGED <<tableVars, variant, file, cache, clock, written>>

\* the table answers one dbSet of the request: the row is upserted, or the
\* table refuses and dbSet throws
dbSet(r, key, ok) ==
    LET q == reqs[r]
    IN  /\ q.pc = "writing"
        /\ key \in q.pending
        /\ store' = IF ok THEN upsert(store, key, q.merged.v[key]) ELSE store
        /\ reqs' = [reqs EXCEPT ![r].pending = q.pending \ {key},
                                ![r].failed = q.failed \/ ~ok]
        /\ UNCHANGED <<variant, pc, current, incoming, merged, data, stripped,
                       restripped, view, fresh, last, file, cache, clock,
                       written>>

\* every dbSet of writeDb is settled: 200 { success: true }, or 500 when one
\* was refused
writeDbReturn(r) ==
    LET q == reqs[r]
    IN  /\ q.pc = "writing"
        /\ q.pending = {}
        /\ reqs' = [reqs EXCEPT ![r].pc = "done",
                                ![r].status = IF q.failed THEN 500 ELSE 200]
        /\ UNCHANGED <<tableVars, variant, file, cache, clock, written>>

NextConcurrent ==
    \/ \E r \in Slots : \E body \in TableBodies(r) : POSTArrives(r, body)
    \/ \E r \in Slots, ok \in BOOLEAN : readDbReturn(r, ok)
    \/ \E r \in Slots, key \in CORE_KEYS \cup {"ahw_r_s101"} : dbSet(r, key, TRUE)
    \/ \E r \in Slots, key \in FailKeys : dbSet(r, key, FALSE)
    \/ \E r \in Slots : writeDbReturn(r)

SpecConcurrent == InitConcurrent /\ [][NextConcurrent]_vars

-----------------------------------------------------------------------------
(* The cleanup job of api/cleanup.js over the Supabase `store` table *)

\* x.startsWith("data:") for the strings of the runs
startsWithData(x) == x.t = "string" /\ x = Payload

\* img => { const clean = { ...img }; delete clean.data; return clean; }
cleanImg(img) == Obj([k \in DOMAIN Spread(img) \ {"data"} |-> img.v[k]])

stripBase64(item) ==
    LET out    == Spread(item)
        images == Get(item, "images")
        image  == Get(item, "image")
        out1   == IF IsArray(images)
                  THEN With(out, "images",
                            Arr([i \in 1..Len(images.v) |-> cleanImg(images.v[i])]))
                  ELSE out
    IN  Obj(IF Truthy(image) /\ startsWithData(image)
            THEN With(out1, "image", Null) ELSE out1)

\* the number of `image` fields and of image records' `data` that start
\* with "data:"
countBlobs(items) ==
    Cardinality({i \in 1..Len(items.v) :
                    LET image == Get(items.v[i], "image")
                    IN  Truthy(image) /\ startsWithData(image)})
    + Cardinality(UNION {
          {<<i, j>> : j \in {r \in 1..Length(Get(items.v[i], "images")) :
                LET dat == Get(Get(items.v[i], "images").v[r], "data")
                IN  Truthy(dat) /\ startsWithData(dat)}} :
          i \in 1..Len(items.v)})

\* data.ahw_series || []
orEmpty(val) == IF Truthy(val) THEN val ELSE Arr(<<>>)

\* series.map(stripBase64)
cleanAll(items) == Arr([i \in 1..Len(items.v) |-> stripBase64(items.v[i])])

\* the order of the three dbSet calls
SaveOrder == <<"ahw_series", "ahw_chars", "ahw_eps">>

\* the values of an image record's `data`: absent, inline, or the URL
\* migrate.js put there
DataU == {Undefined, Payload, Url}

InitCleanup ==
    /\ file = Idle /\ cache = Idle /\ clock = 0 /\ reqs = Idle /\ written = 0
    /\ pc = "idle"
    /\ variant = "cleanup"
    /\ \E d1 \in DataU, d2 \in DataU, im \in ImageU, d3 \in DataU :
          store = Obj(
              Fld("ahw_series",
                  Arr(<<Entity(Str("s1"),
                               Arr(<<Img(Num("1"), d1, Bool(TRUE)),
                                     Img(Num("2"), d2, Undefined)>>),
                               Undefined)>>))
              @@ Fld("ahw_chars", Arr(<<Entity(Num("1"), Undefined, im)>>))
              @@ Fld("ahw_eps",
                     IF d3 = Undefined THEN Undefined
                     ELSE Arr(<<Entity(Str("e1"),
                                       Arr(<<Img(Num("1"), d3, Undefined)>>),
                                       Undefined)>>))
              @@ Fld("ahw_r_s101", Num("5")))
    /\ view = Idle
    /\ fresh = FALSE
    /\ last = Idle
    /\ current = Idle /\ incoming = Idle /\ merged = Idle
    /\ data = Idle /\ stripped = Idle /\ restripped = Idle

\* the job answers: the run is over
CleanupAnswer(status) ==
    /\ pc' = "idle"
    /\ last' = Response("cleanup", status)
    /\ current' = Idle /\ merged' = Idle

\* the pass of the query is not ADMIN_PASS: 401
CleanupUnauthorized ==
    /\ pc = "idle"
    /\ CleanupAnswer(401)
    /\ UNCHANGED <<fileVars, variant, incoming, data, stripped, restripped,
                   store, view, fresh>>

\* dbGetAll and the count: 500 when the read fails, 200 with nothing written
\* when no blob is counted, otherwise the three cleaned collections are
\* computed and the saves begin.  view keeps the rows the run started from,
\* data the rows the first run read
CleanupRead(ok) ==
    LET series == orEmpty(Get(store, "ahw_series"))
        chars  == orEmpty(Get(store, "ahw_chars"))
        eps    == orEmpty(Get(store, "ahw_eps"))
        total  == countBlobs(series) + countBlobs(chars) + countBlobs(eps)
    IN  /\ pc = "idle"
        /\ view' = IF ok THEN store ELSE view
        /\ data' = IF ok /\ data = Idle THEN store ELSE data
        /\ IF ~ok THEN CleanupAnswer(500)
           ELSE IF total = 0 THEN CleanupAnswer(200)
           ELSE /\ pc' = "save1"
                /\ current' = store
                /\ merged' = Obj(("ahw_series" :> cleanAll(series))
                                 @@ ("ahw_chars" :> cleanAll(chars))
                                 @@ ("ahw_eps" :> cleanAll(eps)))
                /\ last' = last
        /\ UNCHANGED <<fileVars, variant, incoming, stripped, restripped,
                       store, fresh>>

\* the n-th dbSet: the row is upserted and the run goes on (200 after the
\* third), or the table refuses and the run ends with 500
CleanupSave(n, ok) ==
    /\ pc = "save" \o ToString(n)
    /\ store' = IF ok
                THEN Obj(With(store.v, SaveOrder[n], ToJSON(merged.v[SaveOrder[n]])))
                ELSE store
    /\ IF ~ok THEN CleanupAnswer(500)
       ELSE IF n = Len(SaveOrder) THEN CleanupAnswer(200)
       ELSE /\ pc' = "save" \o ToString(n + 1)
            /\ UNCHANGED <<current, merged, last>>
    /\ UNCHANGED <<fileVars, variant, incoming, data, stripped, restripped,
                   view, fresh>>

NextCleanup ==
    \/ CleanupUnauthorized
    \/ \E ok \in BOOLEAN : CleanupRead(ok)
    \/ \E n \in 1..Len(SaveOrder), ok \in BOOLEAN : CleanupSave(n, ok)

SpecCleanup == InitCleanup /\ [][NextCleanup]_vars

-----------------------------------------------------------------------------
(* Properties of the handler *)

\* the elements of a collection, none when the key is absent
Elems(val) == IF IsArray(val) THEN val.v ELSE <<>>

\* the image assets of an entity: its image records (absent counts as none)
\* and its single image (absent counts as null)
AssetsOf(e) ==
    <<IF Length(Get(e, "images")) > 0 THEN Get(e, "images") ELSE Arr(<<>>),
      IF Nullish(Get(e, "image")) THEN Null ELSE Get(e, "image")>>

SameAssets(a, b) ==
    /\ Len(Elems(a)) = Len(Elems(b))
    /\ \A i \in 1..Len(Elems(a)) : AssetsOf(Elems(a)[i]) = AssetsOf(Elems(b)[i])

\* C1: after a public GET and a POST of exactly the document it returned,
\* answered 200, every entity of ahw_series, ahw_chars and ahw_eps has the
\* `images` (each record's `data` included) and the `image` it had before
C1_RoundTripKeepsAssets ==
    last # Idle /\ last.method = "POST" /\ last.roundTrip /\ last.status = 200
        => \A key \in {"ahw_series", "ahw_chars", "ahw_eps"} :
               SameAssets(Get(store, key), Get(last.before, key))

-----------------------------------------------------------------------------
(* Properties of smartMerge *)

\* smartMerge has returned a document
Returned == pc = "merged" /\ IsObject(merged)

\* an object that carries an `id` field
HasId(e) == IsObject(e) /\ "id" \in DOMAIN e.v

\* two entities with the same id (ids are joined on String(id))
SameId(a, b) ==
    HasId(a) /\ HasId(b) /\ String(a.v["id"]) = String(b.v["id"])

\* an image record with a `data` value
HasData(r) == Truthy(Get(r, "data"))

\* `images` absent, empty, or made of stripped records only
NoImagesSent(imgs) ==
    \/ imgs = Undefined
    \/ IsArray(imgs) /\ \A j \in 1..Len(imgs.v) : ~HasData(imgs.v[j])

\* the keys of incoming whose stored and submitted values are both arrays
ArrayKeys ==
    {key \in DOMAIN incoming.v :
        IsArray(incoming.v[key]) /\ IsArray(Get(current, key))}

\* C2: a matched entity whose submitted `images` is absent, empty or holds
\* only stripped records comes out of smartMerge with the `images` that
\* current holds for it
C2_ImagesPreserved ==
    Returned =>
        \A key \in ArrayKeys :
            \A i \in 1..Len(incoming.v[key].v), j \in 1..Len(current.v[key].v) :
                LET inItem  == incoming.v[key].v[i]
                    curItem == current.v[key].v[j]
                    outItem == merged.v[key].v[i]
                IN  /\ SameId(inItem, curItem)
                    /\ NoImagesSent(Get(inItem, "images"))
                    /\ Length(Get(curItem, "images")) > 0
                    => Get(outItem, "images") = Get(curItem, "images")

\* C3: a matched entity's `image` is current's when the submitted one is null
\* or absent and current's is non-null, and the submitted one otherwise
C3_ImageRestored ==
    Returned =>
        \A key \in ArrayKeys :
            \A i \in 1..Len(incoming.v[key].v), j \in 1..Len(current.v[key].v) :
                LET inItem  == incoming.v[key].v[i]
                    curItem == current.v[key].v[j]
                    outItem == merged.v[key].v[i]
                IN  SameId(inItem, curItem) =>
                        IF /\ Nullish(Get(inItem, "image"))
                           /\ ~Nullish(Get(curItem, "image"))
                        THEN Get(outItem, "image") = Get(curItem, "image")
                        ELSE Get(outItem, "image") = Get(inItem, "image")

IdsOf(arr) == [i \in 1..Len(arr.v) |-> Get(arr.v[i], "id")]

\* C5: merged[key] lists the ids of incoming[key], same length and order,
\* so an id that only current[key] holds is not in merged[key]
C5_IncomingOrder ==
    Returned =>
        \A key \in ArrayKeys :
            /\ IsArray(merged.v[key])
            /\ IdsOf(merged.v[key]) = IdsOf(incoming.v[key])
            /\ \A j \in 1..Len(current.v[key].v) :
                  (\A i \in 1..Len(incoming.v[key].v) :
                       ~SameId(incoming.v[key].v[i], current.v[key].v[j]))
                  => \A m \in 1..Len(merged.v[key].v) :
                         ~SameId(merged.v[key].v[m], current.v[key].v[j])

\* C5 witness: an entity collection is replaced, two entities are submitted
\* in an order of their own and a stored entity is left out
C5_Witness ==
    /\ Returned
    /\ \E key \in ArrayKeys :
          /\ isIdArray(incoming.v[key], current.v[key])
          /\ Len(incoming.v[key].v) = 2
          /\ ~SameId(incoming.v[key].v[1], incoming.v[key].v[2])
          /\ HasId(incoming.v[key].v[2])
          /\ \E j \in 1..Len(current.v[key].v) :
                /\ HasId(current.v[key].v[j])
                /\ \A i \in 1..2 :
                      ~SameId(incoming.v[key].v[i], current.v[key].v[j])
          /\ \E j \in 1..Len(current.v[key].v) :
                SameId(incoming.v[key].v[2], current.v[key].v[j])

\* C6: a submitted entity whose id no entity of current[key] has is in
\* merged[key] as submitted: same keys, same values
C6_NewEntityUnchanged ==
    Returned =>
        \A key \in DOMAIN incoming.v :
            LET inVal  == incoming.v[key]
                curVal == Get(current, key)
            IN  IsArray(inVal) =>
                  \A i \in 1..Len(inVal.v) :
                      /\ HasId(inVal.v[i])
                      /\ \/ ~IsArray(curVal)
                         \/ \A j \in 1..Len(curVal.v) :
                               ~SameId(inVal.v[i], curVal.v[j])
                      => merged.v[key].v[i] = inVal.v[i]

\* C6 witness: a new entity goes through the id-array branch beside an
\* entity that current[key] holds too, and comes out as submitted
C6_Witness ==
    /\ Returned
    /\ \E key \in ArrayKeys :
          LET inVal  == incoming.v[key]
              curVal == current.v[key]
          IN  /\ isIdArray(inVal, curVal)
              /\ \E i \in 1..Len(inVal.v) :
                    /\ HasId(inVal.v[i])
                    /\ \A j \in 1..Len(curVal.v) : ~SameId(inVal.v[i], curVal.v[j])
                    /\ merged.v[key].v[i] = inVal.v[i]
              /\ \E i \in 1..Len(inVal.v), j \in 1..Len(curVal.v) :
                    SameId(inVal.v[i], curVal.v[j])

\* C7: merged has the keys of current and of incoming and no other, a key
\* of current that incoming lacks keeps current's value, and merging the
\* empty document gives current back
C7_OtherKeysRetained ==
    Returned =>
        /\ DOMAIN merged.v = DOMAIN current.v \cup DOMAIN incoming.v
        /\ \A key \in DOMAIN current.v \ DOMAIN incoming.v :
              merged.v[key] = current.v[key]
        /\ (incoming = EmptyObj => merged = current)

\* C7 witness: a stored non-core key and a stored collection survive a
\* write that names other keys only
C7_Witness ==
    /\ Returned
    /\ DOMAIN incoming.v # {}
    /\ \E key \in DOMAIN current.v \ (DOMAIN incoming.v \cup CORE_KEYS) :
          merged.v[key] = current.v[key]
    /\ \E key \in DOMAIN current.v \ DOMAIN incoming.v :
          Length(current.v[key]) > 0 /\ merged.v[key] = current.v[key]

\* C8: when current[key] and incoming[key] are arrays of objects and the
\* submitted elements carry an `id`, a matched entity with absent or empty
\* `images`, or a null `image`, gets current's values back
C8_EveryIdCollectionDetected ==
    Returned =>
        \A key \in ArrayKeys :
            LET inVal  == incoming.v[key]
                curVal == current.v[key]
            IN  /\ \A i \in 1..Len(inVal.v) : HasId(inVal.v[i])
                /\ \A j \in 1..Len(curVal.v) : IsObject(curVal.v[j])
                => \A i \in 1..Len(inVal.v), j \in 1..Len(curVal.v) :
                       LET inItem  == inVal.v[i]
                           curItem == curVal.v[j]
                           outItem == merged.v[key].v[i]
                       IN  SameId(inItem, curItem) =>
                             /\ /\ Length(Get(inItem, "images")) \in {-1, 0}
                                /\ Length(Get(curItem, "images")) > 0
                                => Get(outItem, "images") = Get(curItem, "images")
                             /\ /\ Get(inItem, "image") = Null
                                /\ ~Nullish(Get(curItem, "image"))
                                => Get(outItem, "image") = Get(curItem, "image")

\* an array none of whose elements is an object carrying an id
NoIdArray(val) ==
    IsArray(val) /\ \A i \in 1..Len(val.v) : ~HasId(val.v[i])

\* C9: a key of incoming whose value is a scalar, an object, an empty array
\* or an array without id-bearing objects is stored as submitted
C9_Overwrite ==
    Returned =>
        \A key \in DOMAIN incoming.v :
            ~IsArray(incoming.v[key]) \/ NoIdArray(incoming.v[key])
                => merged.v[key] = incoming.v[key]

\* C9 witness: an empty submitted collection clears a stored one that holds
\* entities, and a submitted settings object replaces a stored one with
\* other keys
C9_Witness ==
    /\ Returned
    /\ \E key \in DOMAIN incoming.v :
          /\ incoming.v[key] = Arr(<<>>)
          /\ \E j \in 1..Length(Get(current, key)) : HasId(current.v[key].v[j])
          /\ merged.v[key] = Arr(<<>>)
    /\ \E key \in DOMAIN incoming.v :
          /\ IsObject(incoming.v[key])
          /\ IsObject(Get(current, key))
          /\ DOMAIN current.v[key].v \ DOMAIN incoming.v[key].v # {}
          /\ merged.v[key] = incoming.v[key]

-----------------------------------------------------------------------------
(* Properties of stripImages *)

\* C10: stripping what was stripped changes nothing in the JSON document
C10_StripIdempotent ==
    pc = "restripped" => ToJSON(restripped) = ToJSON(stripped)

\* C10 witness: the first application removed a payload from a series that
\* also holds a cover, and the second application has run
C10_Witness ==
    /\ pc = "restripped"
    /\ ToJSON(stripped) # ToJSON(data)
    /\ \E i \in 1..Length(Get(data, "ahw_series")) :
          LET imgs == Get(data.v["ahw_series"].v[i], "images")
          IN  /\ \E r \in 1..Length(imgs) :
                    HasData(imgs.v[r]) /\ Truthy(Get(imgs.v[r], "iscover"))
              /\ \E r \in 1..Length(imgs) :
                    HasData(imgs.v[r]) /\ ~Truthy(Get(imgs.v[r], "iscover"))

\* the entity collections stripImages visits
EntityKeys == {"ahw_series", "ahw_chars", "ahw_eps"}

\* an image record without its `data`
WithoutData(r) == Obj([k \in DOMAIN Spread(r) \ {"data"} |-> r.v[k]])

\* C11: in every entity collection, an entity's `images` keeps as many
\* records in the same order after stripImages; the cover record is kept
\* whole and every other record loses `data` and nothing else
C11_ImagesStripPolicy ==
    (pc = "stripped" /\ stripped # TypeError /\ IsObject(data)) =>
        \A key \in EntityKeys :
            \A i \in 1..Length(Get(data, key)) :
                LET imgs == Get(data.v[key].v[i], "images")
                    out  == Get(Get(stripped, key).v[i], "images")
                IN  Length(imgs) > 0 =>
                        /\ Length(out) = Length(imgs)
                        /\ \A r \in 1..Length(imgs) :
                              ToJSON(out.v[r]) =
                                  IF Truthy(Get(imgs.v[r], "iscover"))
                                  THEN ToJSON(imgs.v[r])
                                  ELSE ToJSON(WithoutData(imgs.v[r]))

\* the values of `image` that are remote URLs, and those that are inline
\* payloads
IsRemoteUrl(x) == x = Url
IsInlinePayload(x) == x = Payload

\* C12: after stripImages a character's `image` is what it was when it was
\* a remote URL, and null when it was an inline payload
C12_ImageStripPolicy ==
    (pc = "stripped" /\ stripped # TypeError /\ IsObject(data)) =>
        \A i \in 1..Length(Get(data, "ahw_chars")) :
            LET before == Get(data.v["ahw_chars"].v[i], "image")
                after  == Get(Get(stripped, "ahw_chars").v[i], "image")
            IN  /\ IsRemoteUrl(before) => after = before
                /\ IsInlinePayload(before) => after = Null

-----------------------------------------------------------------------------
(* Properties of the handlers over the table *)

\* the stored rows, with each core key that has no row given its default
WithDefaults(rows) ==
    Obj([key \in DOMAIN rows.v \cup CORE_KEYS |->
           IF key \in DOMAIN rows.v THEN rows.v[key]
           ELSE IF key = "ahw_settings" THEN EmptyObj ELSE Arr(<<>>)])

\* doc holds every key of expected with expected's value
Covers(doc, expected) ==
    \A key \in DOMAIN expected.v :
        key \in DOMAIN doc.v /\ doc.v[key] = expected.v[key]

\* C13: a GET answered 200 leaves the table as it was; with admin=1 it sends
\* every stored row unchanged and the core keys defaulted, otherwise
\* stripImages of that (keys a handler sends beyond these are not counted)
C13_ReadContract ==
    [][(last'.method = "GET" /\ last'.status = 200) =>
          /\ store' = store
          /\ Covers(view'.doc,
                    ToJSON(IF view'.admin THEN WithDefaults(store)
                           ELSE stripImages(WithDefaults(store))))]_vars

\* C14: a POST whose body is no JSON object is answered 400 and leaves the
\* table as it was
C14_InvalidPayloadRejected ==
    [][(last'.method = "POST" /\ ~last'.jsonObject) =>
          (last'.status = 400 /\ store' = store)]_vars

\* C17: a POST is answered 200 only when no dbSet was refused; when one was
\* refused the answer is 500, the refused keys keep their rows, and every
\* other key of the merged document holds its new value
C17_WriteOutcomeFaithful ==
    [][(last'.method = "POST" /\ last'.jsonObject) =>
          /\ last'.status = 200 => last'.refused = {}
          /\ last'.refused # {} =>
                /\ last'.status = 500
                /\ \E body \in Bodies :
                      LET doc == smartMerge(readDb(store), body)
                      IN  /\ doc # TypeError
                          /\ last'.refused \subseteq DOMAIN doc.v
                          /\ \A key \in DOMAIN doc.v \ last'.refused :
                                Get(store', key) = ToJSON(doc.v[key])
                          /\ \A key \in last'.refused :
                                Get(store', key) = Get(store, key)]_vars

\* C17 witness: the dbSet of ahw_settings was refused and the POST answered
\* 500, yet the table holds the new ahw_chars = [] beside no settings row
C17_Witness ==
    /\ last # Idle
    /\ last.method = "POST" /\ last.status = 500
    /\ last.refused = {"ahw_settings"}
    /\ Get(store, "ahw_settings") = Undefined
    /\ Get(store, "ahw_chars") = Arr(<<>>)

-----------------------------------------------------------------------------
(* Properties of the handlers over the file *)

\* the request of slot r has been answered
Answered(r, method) == reqs[r].pc = "done" /\ reqs[r].method = method

\* the keys of the catalogue and the settings, which the admin panel edits
ProtectedKeys == CORE_KEYS

\* C15: a POST from a caller without the admin password whose body holds a
\* protected key is not answered 200 (the claim asks for an Unauthorized
\* answer and an unchanged file, which is more)
C15_UnprivilegedWriteRefused ==
    \A r \in Slots :
        (/\ Answered(r, "POST")
         /\ ~privileged(r)
         /\ reqs[r].body # Idle
         /\ DOMAIN reqs[r].body.v \cap ProtectedKeys # {})
            => reqs[r].status # 200

\* C16: a POST whose PUT GitHub refused for its stale sha is not answered
\* 200, and its answer differs from the answer to a POST whose PUT failed
\* because GitHub was down
C16_ConflictDistinct ==
    variant = "file" =>
        \A a \in Slots :
            (Answered(a, "POST") /\ reqs[a].putFailure = "stale") =>
                /\ reqs[a].status # 200
                /\ \A b \in Slots :
                      (Answered(b, "POST") /\ reqs[b].putFailure = "unavailable")
                          => <<reqs[a].status, reqs[a].error>>
                                 # <<reqs[b].status, reqs[b].error>>

\* C18: a GET whose fetch of the file GitHub answered with a non-ok status
\* other than 404 is not answered 200
C18_ReadFailureSurfaced ==
    \A r \in Slots :
        (Answered(r, "GET") /\ reqs[r].readFailed) => reqs[r].status # 200

\* C19: in the cached handler, a GET that arrives after a POST was answered
\* 200 sends the document of that commit or of a later one, never an
\* earlier one
C19_ReadYourWrites ==
    variant = "cached" =>
        \A r \in Slots :
            (Answered(r, "GET") /\ reqs[r].status = 200 /\ reqs[r].since > 0)
                => reqs[r].ver >= reqs[r].since

-----------------------------------------------------------------------------
(* Properties of the cleanup job *)

\* an entity with its "data:" payloads removed and nothing else touched
WithoutBlobs(item) ==
    LET images == Get(item, "images")
        image  == Get(item, "image")
        out1   == IF IsArray(images)
                  THEN With(Spread(item), "images",
                            Arr([i \in 1..Len(images.v) |->
                                   IF startsWithData(Get(images.v[i], "data"))
                                   THEN WithoutData(images.v[i])
                                   ELSE images.v[i]]))
                  ELSE Spread(item)
    IN  Obj(IF startsWithData(image) THEN With(out1, "image", Null) ELSE out1)

\* C20: after a run of the cleanup job answered 200, every entity of the
\* three collections is what it was before the run with its "data:"
\* payloads removed: a URL in an image record's `data` or in `image` stays
C20_CleanupKeepsNonBlobs ==
    (variant = "cleanup" /\ pc = "idle" /\ last # Idle /\ last.status = 200) =>
        \A key \in EntityKeys :
            LET before == Get(view, key)
                after  == Get(store, key)
            IN  IsArray(before) =>
                    /\ Length(after) = Length(before)
                    /\ \A i \in 1..Length(before) :
                          after.v[i] = ToJSON(WithoutBlobs(before.v[i]))

\* the rows a run that saves all three collections leaves
cleanedStore(rows) ==
    Obj([key \in DOMAIN rows.v \cup EntityKeys |->
            IF key \in EntityKeys
            THEN ToJSON(cleanAll(orEmpty(Get(rows, key))))
            ELSE rows.v[key]])

\* the three collections of the rows, a missing row read as []
Collections(rows) == [key \in EntityKeys |-> orEmpty(Get(rows, key))]

\* the "data:" payloads the job counts in the rows
totalBlobs(rows) ==
    countBlobs(orEmpty(Get(rows, "ahw_series")))
    + countBlobs(orEmpty(Get(rows, "ahw_chars")))
    + countBlobs(orEmpty(Get(rows, "ahw_eps")))

\* C21: the job can be run again: once a run answered 200 no payload is
\* counted any more, and when the rows the first run read held payloads the
\* collections are those one run that saved all three would have left,
\* whether or not earlier runs failed between their saves
C21_CleanupRerunConverges ==
    (variant = "cleanup" /\ pc = "idle" /\ last # Idle /\ last.status = 200
        /\ data # Idle) =>
        /\ totalBlobs(store) = 0
        /\ totalBlobs(data) > 0 =>
              Collections(store) = Collections(cleanedStore(data))

-----------------------------------------------------------------------------
(* Properties of the row-table handler with requests in flight *)

\* the request of the slot was answered 200
Saved(r) == reqs[r].pc = "done" /\ reqs[r].status = 200

\* the rows after the two bodies are posted one after the other, each POST
\* ending before the next begins
OneAfterTheOther(rows, first, second) ==
    LET after1 == writeDb(rows, smartMerge(readDb(rows), first), {})
    IN  writeDb(after1, smartMerge(readDb(after1), second), {})

\* C22: no version is checked, the last dbSet of a key wins: when both
\* requests in flight were answered 200 and both bodies name ahw_chars, the
\* row holds the merge result of one of them
C22_LastWriteWins ==
    (variant = "concurrent" /\ Saved(1) /\ Saved(2)
        /\ "ahw_chars" \in DOMAIN reqs[1].body.v
        /\ "ahw_chars" \in DOMAIN reqs[2].body.v) =>
        Get(store, "ahw_chars") \in
            {ToJSON(reqs[r].merged.v["ahw_chars"]) : r \in Slots}

\* both requests read the same rows, both were answered 200, and the row
\* holds the second caller's merge result, that lacks the image the first
\* uploaded; in either order one after the other the image is kept
C22_Witness ==
    /\ variant = "concurrent" /\ Saved(1) /\ Saved(2)
    /\ reqs[1].body = UploadBody /\ reqs[2].body = EditBody
    /\ reqs[1].current = reqs[2].current
    /\ Get(store, "ahw_chars") = ToJSON(reqs[2].merged.v["ahw_chars"])
    /\ Get(store, "ahw_chars") # ToJSON(reqs[1].merged.v["ahw_chars"])
    /\ \A done \in {OneAfterTheOther(reqs[1].current, UploadBody, EditBody),
                    OneAfterTheOther(reqs[1].current, EditBody, UploadBody)} :
          /\ Get(done, "ahw_chars") # Get(store, "ahw_chars")
          /\ HasData(Get(done, "ahw_chars").v[1].v.images.v[1])

\* C24: a write changes only the keys its body names: when the dbSet of a
\* key the request's body does not name is answered, the row reads after it
\* as it read before it (an absent row reading as readDb's default), also
\* when another request wrote the key since this one read
C24_OnlyIncomingKeysChange ==
    [][variant = "concurrent" =>
         \A r \in Slots, key \in CORE_KEYS \cup {"ahw_r_s101"} :
             (/\ reqs[r].pc = "writing"
              /\ key \in reqs[r].pending
              /\ key \notin reqs'[r].pending
              /\ key \notin DOMAIN reqs[r].body.v)
                 => Get(readDb(store'), key) = Get(readDb(store), key)]_vars

-----------------------------------------------------------------------------
(* Properties of the cache of the cached file handler *)

\* C23: a GET that readFile answered from _cache sends a document cached at
\* most CACHE_TTL ago
C23_CacheFreshnessBounded ==
    variant = "cached" =>
        \A r \in Slots :
            (Answered(r, "GET") /\ reqs[r].status = 200 /\ reqs[r].cached)
                => reqs[r].age <= CACHE_TTL

\* C25: whenever the cached handler holds a document in _cache, _cacheSha is
\* the sha of the commit that document is the content of, in the states
\* between the awaits of its requests too
C25_CacheTokenConsistent ==
    (variant = "cached" /\ Truthy(cache.data)) => cache.sha = cache.ver

\* C26: after a POST of the retrying caller failed on a stale sha, one of
\* its POSTs is answered 200
C26_ConflictRecovery ==
    (reqs[1].pc = "done" /\ reqs[1].putFailure = "stale")
        ~> (reqs[1].pc = "done" /\ reqs[1].method = "POST"
                /\ reqs[1].status = 200)

\* a POST sent again after a stale sha was refused is answered 200
C26_Witness ==
    /\ variant = "cached"
    /\ reqs[1].pc = "done" /\ reqs[1].method = "POST"
    /\ reqs[1].retried /\ reqs[1].status = 200

\* C27: a POST whose read failed never replaces the document of an existing
\* file by one that lacks a key the body did not name: GitHub refuses the
\* PUT that carries no sha or another sha than the file's
C27_FailedReadNeverWipes ==
    [][\A r \in Slots :
          (/\ reqs[r].pc = "putSent" /\ reqs[r].readFailed
           /\ reqs'[r].pc = "putReplied"
           /\ file.sha > 0 /\ file' # file)
              => \A key \in DOMAIN file.content.v \ DOMAIN reqs[r].body.v :
                     key \in DOMAIN file'.content.v]_vars

-----------------------------------------------------------------------------
(* Properties of smartMerge on the fields of an entity *)

\* the fields of the entities other than the two smartMerge restores
OtherFields(items) == UNION {DOMAIN Spread(e) : e \in items} \ {"images", "image"}

\* C28: a submitted entity that has the id of a stored one is merged into
\* an entity whose fields other than images and image are the submitted
\* ones: none is taken from the stored entity, none of the stored entity's
\* own is added
C28_MatchedFieldsFromIncoming ==
    (pc = "merged" /\ merged # TypeError) =>
        \A key \in DOMAIN incoming.v :
            (IsArray(incoming.v[key]) /\ IsArray(Get(current, key))) =>
                \A i \in 1..Len(incoming.v[key].v) :
                    LET inItem  == incoming.v[key].v[i]
                        curItem == curById(Get(current, key), Get(inItem, "id"))
                        out     == merged.v[key].v[i]
                    IN  (IsObject(inItem) /\ HasId(inItem) /\ IsObject(curItem)) =>
                            \A f \in OtherFields({inItem, curItem, out}) :
                                Get(out, f) = Get(inItem, f)

\* a stored character with a title and notes is matched by a submitted one
\* with another title and no notes: the merged one has the submitted title,
\* no notes, and the stored images
C28_Witness ==
    /\ pc = "merged" /\ merged # TypeError
    /\ "ahw_chars" \in DOMAIN incoming.v
    /\ Length(incoming.v["ahw_chars"]) = 1 /\ Length(Get(current, "ahw_chars")) = 1
    /\ LET inItem  == incoming.v["ahw_chars"].v[1]
           curItem == current.v["ahw_chars"].v[1]
           out     == merged.v["ahw_chars"].v[1]
       IN  /\ IsObject(inItem) /\ IsObject(curItem)
           /\ Get(inItem, "id") = Get(curItem, "id")
           /\ Get(curItem, "notes") = Str("kept") /\ Get(curItem, "title") = Str("old")
           /\ Get(inItem, "title") = Str("new")
           /\ Get(out, "title") = Str("new")
           /\ "notes" \notin DOMAIN out.v
           /\ HasData(Get(out, "images").v[1])

====
